---- MODULE Spec2Model ----
(***************************************************************************)
(* A model of process-dryad-email.py: one run of the program takes an      *)
(* email text, classifies it, extracts its fields, looks the DOI up among  *)
(* all curation issues of the tracker (Jira) and creates or transitions an *)
(* issue.  The tracker is the only shared state; every call the program    *)
(* makes to it is one step of the model and is recorded in `calls`.        *)
(***************************************************************************)
EXTENDS Integers, Sequences, FiniteSets, TLC

(* ---------------------------- bounds ----------------------------------- *)

\* Largest number of curation issues the tracker holds initially.
MaxIssues == 2
\* Largest number of issues the tracker serves in one page of a search.
MaxPage == 2
\* Largest number of transitions in one allowed-transitions response.
MaxTrans == 2

(* ------------------------ values of the model -------------------------- *)

\* Python's None, and JSON null, where a string is expected.
None == "None"
\* Python's None where a record (a tuple, a frame) is expected.
Absent == [none |-> TRUE]

\* The message types, in the order of the `markers` dict.
EmailTypes == <<"submission", "publication", "peer_review", "withdrawal">>

\* The marker phrase of each message type.
markers ==
    [t \in {EmailTypes[i] : i \in 1..Len(EmailTypes)} |->
        CASE t = "submission" ->
               "Your data submission will soon be evaluated by a member of our curation team"
          [] t = "publication" ->
               "has been reviewed by our curation team and approved for publication."
          [] t = "peer_review" ->
               "you have selected to keep your Dryad data submission in \"Private for peer review\" status"
          [] t = "withdrawal" ->
               "Your data submission has been withdrawn"]

MarkerPhrases == {markers[t] : t \in DOMAIN markers}

\* The workflow statuses of the tracker that the program names, and one
\* ("To Do") more that it reaches.
Statuses == {"To Do", "In Progress", "Waiting on Peer Review", "Resolved"}

\* DOIs carried by emails and by issues.  (An issue whose DOI field is null
\* compares unequal to every email's DOI, as one with another DOI does.)
EmailDois == {"10.5061/dryad.a1"}
IssueDois == {"10.5061/dryad.a1", "10.5061/dryad.b2"}
Depositors == {"Jane Doe"}
DatasetNames == {"Data from: a study"}

\* An email text, described by what the program's patterns find in it: the
\* marker phrases it contains and, for each extraction pattern, the capture
\* group of the pattern's first match in the text (None: no match).
Emails ==
    [phrases : SUBSET MarkerPhrases,
     dear    : Depositors \cup {None},
     titled  : DatasetNames \cup {None},
     subdoi  : EmailDois \cup {None},
     wddoi   : EmailDois \cup {None}]

\* A curation issue as the tracker holds it; its key is its position.
NewIssue(status, doi) ==
    [status |-> status, doi |-> doi, assignee |-> "curator",
     resolution |-> None, curation_status |-> "Unset"]

SeqsUpTo(S, n) == UNION {[1..k -> S] : k \in 0..n}

Trackers == SeqsUpTo({NewIssue(s, d) : s \in Statuses, d \in IssueDois}, MaxIssues)

\* The transitions of the tracker's workflow: id -> name of the target status.
\* Two transitions lead to "In Progress".
TransitionTo ==
    [id \in {"11", "21", "22", "31"} |->
        CASE id = "11" -> "To Do"
          [] id \in {"21", "22"} -> "In Progress"
          [] id = "31" -> "Resolved"]

\* The allowed-transitions responses: lists of distinct transitions.
TransitionLists ==
    {l \in SeqsUpTo(DOMAIN TransitionTo, MaxTrans) :
        \A i, j \in DOMAIN l : i # j => l[i] # l[j]}

Min(a, b) == IF a <= b THEN a ELSE b

(* ------------------------------ state ---------------------------------- *)

VARIABLES
    tracker,      \* the tracker's curation issues, by key (position)
    email,        \* the email text given to the run
    pc,           \* where the run is
    type,         \* process_email: the classified type
    fields,       \* the extracted (doi, dataset_name, depositor)
    issues,       \* get_curation_issues: the issues accumulated
    start,        \* get_curation_issues: the next offset
    ci,           \* the issue found for the DOI, or None
    cis,          \* change_issue_status: the frame between its two calls
    calls,        \* every collaborator call issued, in order
    error,        \* the error that aborted the run, or None
    tracker0,     \* the tracker's issues when the run started
    outcomes,     \* what each call of `calls` came back with
    faulty,       \* whether the tracker may answer a call with a failure
    other,        \* a second run, while it is not the one taking steps
    runs,         \* the number of runs started
    first,        \* the result of an earlier lookup, or the earlier run
    text,         \* the text given to a text function on its own
    result        \* what that function returned

vars == <<tracker, email, pc, type, fields, issues, start, ci, cis, calls, error,
          tracker0, outcomes, faulty, other, runs, first, text, result>>

\* What no step of a run changes.
outside == <<faulty, other, runs, first, text, result>>

\* The outcomes the tracker may answer with, among those of a call.
Outcomes(S) == IF faulty THEN S ELSE {"ok"}

Init ==
    /\ tracker \in Trackers
    /\ email \in Emails
    /\ pc = "process_email"
    /\ type = None
    /\ fields = Absent
    /\ issues = <<>>
    /\ start = 0
    /\ ci = Absent
    /\ cis = Absent
    /\ calls = <<>>
    /\ error = None
    /\ tracker0 = tracker
    /\ outcomes = <<>>
    /\ faulty = TRUE
    /\ other = Absent
    /\ runs = 1
    /\ first = Absent
    /\ text = Absent
    /\ result = Absent

\* Abort with a slip: the exception is swallowed and the statement is tried
\* again.
Abort_retry(e) ==
    /\ pc' = pc
    /\ error' = e

\* An uncaught exception or failed assertion ends the run.
Abort(e) ==
    /\ pc' = "aborted"
    /\ error' = e

(* ------------------------------ parsing -------------------------------- *)

\* matches = [t for t, m in markers.items() if m in email_text]
matches(email_text) ==
    SelectSeq(EmailTypes, LAMBDA t : markers[t] \in email_text.phrases)

\* email_type with a slip: the ambiguity assertion is missing.
email_type_first(email_text) ==
    LET m == matches(email_text) IN
    IF ~(Len(m) >= 1) THEN [ok |-> FALSE, value |-> "unrecognized email message type"]
    ELSE [ok |-> TRUE, value |-> m[1]]

\* email_type: the type, or the assertion that fails.
email_type(email_text) ==
    LET m == matches(email_text) IN
    IF ~(Len(m) >= 1) THEN [ok |-> FALSE, value |-> "unrecognized email message type"]
    ELSE IF ~(Len(m) = 1) THEN [ok |-> FALSE, value |-> "ambiguous email message type"]
    ELSE [ok |-> TRUE, value |-> m[1]]

\* extract_field: the capture group of the first match, or a parse error.
extract_field(found, name) ==
    IF found = None
    THEN [ok |-> FALSE, value |-> "parse error: unable to locate " \o name]
    ELSE [ok |-> TRUE, value |-> found]

\* parse_submission_email with a slip: a DOI that is not found is passed on
\* as None.
parse_submission_email_partial(email_text) ==
    LET depositor == extract_field(email_text.dear, "depositor name")
        dataset_name == extract_field(email_text.titled, "dataset name")
    IN  IF ~depositor.ok THEN depositor
        ELSE IF ~dataset_name.ok THEN dataset_name
        ELSE [ok |-> TRUE,
              value |-> [doi |-> email_text.subdoi, dataset_name |-> dataset_name.value,
                         depositor |-> depositor.value]]

\* parse_submission_email: depositor, dataset name, DOI, in this order; the
\* first field that is not found raises.
parse_submission_email(email_text) ==
    LET depositor == extract_field(email_text.dear, "depositor name")
        dataset_name == extract_field(email_text.titled, "dataset name")
        doi == extract_field(email_text.subdoi, "DOI")
    IN  IF ~depositor.ok THEN depositor
        ELSE IF ~dataset_name.ok THEN dataset_name
        ELSE IF ~doi.ok THEN doi
        ELSE [ok |-> TRUE,
              value |-> [doi |-> doi.value, dataset_name |-> dataset_name.value,
                         depositor |-> depositor.value]]

\* parse_withdrawal_email: the DOI only.
parse_withdrawal_email(email_text) ==
    LET doi == extract_field(email_text.wddoi, "DOI")
    IN  IF ~doi.ok THEN doi
        ELSE [ok |-> TRUE,
              value |-> [doi |-> doi.value, dataset_name |-> None, depositor |-> None]]

(* --------------------------- process_email ----------------------------- *)

\* handler with a slip: every type but withdrawal is handled as a submission.
handler_not_withdrawal(t) ==
    IF t = "withdrawal" THEN "process_withdrawal_email"
    ELSE "process_submission_email"

\* The branch process_email takes for a type.
handler(t) ==
    IF t = "submission" THEN "process_submission_email"
    ELSE IF t = "withdrawal" THEN "process_withdrawal_email"
    ELSE "done"

process_email ==
    /\ pc = "process_email"
    /\ LET t == email_type(email) IN
       IF ~t.ok
       THEN Abort(t.value) /\ UNCHANGED type
       ELSE /\ type' = t.value
            /\ error' = error
            /\ pc' = handler(t.value)
    /\ UNCHANGED <<tracker, email, fields, issues, start, ci, cis, calls, tracker0, outcomes,
                   outside>>

\* The first statement of process_submission_email / process_withdrawal_email.
ParseEmail(parsed) ==
    /\ IF ~parsed.ok
       THEN Abort(parsed.value) /\ UNCHANGED fields
       ELSE /\ fields' = parsed.value
            /\ pc' = "get_curation_issues"
            /\ error' = error
    /\ UNCHANGED <<tracker, email, type, issues, start, ci, cis, calls, tracker0, outcomes,
                   outside>>

process_submission_email_parse ==
    /\ pc = "process_submission_email"
    /\ ParseEmail(parse_submission_email(email))

process_withdrawal_email_parse ==
    /\ pc = "process_withdrawal_email"
    /\ ParseEmail(parse_withdrawal_email(email))

(* ------------------------- the tracker's API --------------------------- *)

\* What a call can come back with: the expected status code and body, another
\* status code (api_call's assertion fails), or the expected status code with
\* a body of another shape (the caller's `except:` raises).
ApiOutcomes == {"ok", "status", "shape"}
\* The calls whose response body the program does not read.
ApiOutcomesNoBody == {"ok", "status"}

ApiError(outcome) ==
    IF outcome = "status" THEN "API call failed" ELSE "API unexpected response"

\* CurationIssue(key, status, doi) of the issue at position k.
CurationIssue(tr, k) == [key |-> k, status |-> tr[k].status, doi |-> tr[k].doi]

\* The page of a search: at most n issues from offset `startAt`.
SearchPage(tr, startAt, n) ==
    [i \in 1..(Min(startAt + n, Len(tr)) - Min(startAt, Len(tr))) |->
        CurationIssue(tr, startAt + i)]

\* next_start with a slip: the offset advances by one per page.
next_start_by_one(startAt, page) == startAt + 1

\* start += len(j["issues"])
next_start(startAt, page) == startAt + Len(page)

\* get_curation_issues: one iteration of its loop, that is one search call.
get_curation_issues ==
    /\ pc = "get_curation_issues"
    /\ calls' = Append(calls, [op |-> "searchIssues", startAt |-> start])
    /\ \E outcome \in Outcomes(ApiOutcomes), n \in 1..MaxPage :
          IF outcome # "ok"
          THEN /\ Abort(ApiError(outcome)) /\ UNCHANGED <<issues, start>>
               /\ outcomes' = Append(outcomes, [outcome |-> outcome])
          ELSE LET page == SearchPage(tracker, start, n) IN
               /\ outcomes' = Append(outcomes, [outcome |-> outcome, issues |-> page])
               /\ error' = error
               /\ IF Len(page) = 0
                  THEN pc' = "get_curation_issue_by_doi" /\ UNCHANGED <<issues, start>>
                  ELSE /\ issues' = issues \o page
                       /\ start' = next_start(start, page)
                       /\ pc' = pc
    /\ UNCHANGED <<tracker, email, type, fields, ci, cis, tracker0, outside>>

\* curation_issue_by_doi with a slip: the uniqueness assertion is missing.
curation_issue_by_doi_first(all, doi) ==
    LET ci_list == SelectSeq(all, LAMBDA i : i.doi = doi) IN
    IF Len(ci_list) > 0
    THEN [ok |-> TRUE, value |-> ci_list[1]]
    ELSE [ok |-> TRUE, value |-> Absent]

\* get_curation_issue_by_doi, after get_curation_issues has returned `all`.
curation_issue_by_doi(all, doi) ==
    LET ci_list == SelectSeq(all, LAMBDA i : i.doi = doi) IN
    IF Len(ci_list) > 0
    THEN IF ~(Len(ci_list) = 1)
         THEN [ok |-> FALSE, value |-> "more than one curation issue matches DOI"]
         ELSE [ok |-> TRUE, value |-> ci_list[1]]
    ELSE [ok |-> TRUE, value |-> Absent]

get_curation_issue_by_doi ==
    /\ pc = "get_curation_issue_by_doi"
    /\ LET r == curation_issue_by_doi(issues, fields.doi) IN
       IF ~r.ok
       THEN Abort(r.value) /\ UNCHANGED ci
       ELSE /\ ci' = r.value
            /\ pc' = "disposition"
            /\ error' = error
    /\ UNCHANGED <<tracker, email, type, fields, issues, start, cis, calls, tracker0, outcomes,
                   outside>>

(* --------------------------- dispositions ------------------------------ *)

\* submission_disposition with a slip: an issue that exists in another status
\* is created again.
submission_disposition_recreate(found) ==
    IF found # Absent /\ found.status = "Waiting on Peer Review"
    THEN "sub_change_in_progress"
    ELSE "create_curation_issue"

\* submission_disposition with a slip: nothing is created for a DOI that has
\* no issue.
submission_disposition_no_create(found) ==
    IF found # Absent /\ found.status = "Waiting on Peer Review"
    THEN "sub_change_in_progress"
    ELSE "done"

\* process_submission_email, from `if ci != None` to its first call.
submission_disposition(found) ==
    IF found # Absent
    THEN IF found.status = "Waiting on Peer Review"
         THEN "sub_change_in_progress"
         ELSE "done"
    ELSE "create_curation_issue"

\* withdrawal_disposition with a slip: never changes to In Progress first.
withdrawal_disposition_no_hop(found) ==
    IF found # Absent /\ found.status # "Resolved"
    THEN "wd_change_resolved"
    ELSE "done"

\* withdrawal_disposition with a slip: changes to In Progress even from
\* In Progress.
withdrawal_disposition_always_hop(found) ==
    IF found # Absent /\ found.status # "Resolved"
    THEN "wd_change_in_progress"
    ELSE "done"

\* withdrawal_disposition with a slip: an issue that is Resolved already is
\* withdrawn like any other.
withdrawal_disposition_resolved_again(found) ==
    IF found # Absent
    THEN IF found.status # "In Progress"
         THEN "wd_change_in_progress"
         ELSE "wd_change_resolved"
    ELSE "done"

\* process_withdrawal_email, from `if ci != None` to its first call.
withdrawal_disposition(found) ==
    IF found # Absent
    THEN IF found.status # "Resolved"
         THEN IF found.status # "In Progress"
              THEN "wd_change_in_progress"
              ELSE "wd_change_resolved"
         ELSE "done"
    ELSE "done"

process_submission_email_disposition ==
    /\ pc = "disposition"
    /\ type = "submission"
    /\ pc' = submission_disposition(ci)
    /\ UNCHANGED <<tracker, email, type, fields, issues, start, ci, cis, calls, error,
                   tracker0, outcomes, outside>>

process_withdrawal_email_disposition ==
    /\ pc = "disposition"
    /\ type = "withdrawal"
    /\ pc' = withdrawal_disposition(ci)
    /\ UNCHANGED <<tracker, email, type, fields, issues, start, ci, cis, calls, error,
                   tracker0, outcomes, outside>>

\* StatusChanges with a slip: the submission handler skips the change to
\* To Do.
StatusChanges_skip_to_do ==
    [p \in {"sub_change_in_progress", "sub_change_to_do",
            "wd_change_in_progress", "wd_change_resolved"} |->
        CASE p = "sub_change_in_progress" ->
               [new_status |-> "In Progress", next |-> "sub_change_fields"]
          [] p = "sub_change_to_do" ->
               [new_status |-> "To Do", next |-> "sub_change_fields"]
          [] p = "wd_change_in_progress" ->
               [new_status |-> "In Progress", next |-> "wd_change_resolved"]
          [] p = "wd_change_resolved" ->
               [new_status |-> "Resolved", next |-> "wd_change_fields"]]

\* The change_issue_status calls of the two handlers: the status each asks
\* for and the statement that follows it.
StatusChanges ==
    [p \in {"sub_change_in_progress", "sub_change_to_do",
            "wd_change_in_progress", "wd_change_resolved"} |->
        CASE p = "sub_change_in_progress" ->
               [new_status |-> "In Progress", next |-> "sub_change_to_do"]
          [] p = "sub_change_to_do" ->
               [new_status |-> "To Do", next |-> "sub_change_fields"]
          [] p = "wd_change_in_progress" ->
               [new_status |-> "In Progress", next |-> "wd_change_resolved"]
          [] p = "wd_change_resolved" ->
               [new_status |-> "Resolved", next |-> "wd_change_fields"]]

\* transition_id with a slip: the first transition, whatever its target.
transition_id_first(transitions, new_status) ==
    IF Len(transitions) = 0 THEN None ELSE transitions[1]

\* The id change_issue_status picks from the allowed transitions: the first
\* whose target is named new_status (None: IndexError).
transition_id(transitions, new_status) ==
    LET ids == SelectSeq(transitions, LAMBDA t : TransitionTo[t] = new_status) IN
    IF Len(ids) = 0 THEN None ELSE ids[1]

\* change_issue_status, its first call: the allowed transitions of the issue.
change_issue_status_get ==
    /\ pc \in DOMAIN StatusChanges
    /\ cis = Absent
    /\ calls' = Append(calls, [op |-> "getAllowedTransitions", key |-> ci.key])
    /\ \E outcome \in Outcomes(ApiOutcomes), transitions \in TransitionLists :
          IF outcome # "ok"
          THEN /\ Abort(ApiError(outcome)) /\ UNCHANGED cis
               /\ outcomes' = Append(outcomes, [outcome |-> outcome])
          ELSE LET new_status == StatusChanges[pc].new_status
                   id == transition_id(transitions, new_status)
               IN  /\ outcomes' = Append(outcomes, [outcome |-> outcome, id |-> id])
                   /\ cis' = [key |-> ci.key, new_status |-> new_status,
                              transitions |-> transitions, id |-> id]
                   /\ IF id = None
                      THEN Abort("new status not found in allowable transitions")
                      ELSE pc' = pc /\ error' = error
    /\ UNCHANGED <<tracker, email, type, fields, issues, start, ci, tracker0, outside>>

\* change_issue_status, its second call: apply the transition picked.
change_issue_status_post ==
    /\ pc \in DOMAIN StatusChanges
    /\ cis # Absent
    /\ calls' = Append(calls, [op |-> "applyTransition", key |-> cis.key, id |-> cis.id])
    /\ \E outcome \in Outcomes(ApiOutcomesNoBody) :
       /\ outcomes' = Append(outcomes, [outcome |-> outcome])
       /\ IF outcome # "ok"
          THEN Abort(ApiError(outcome)) /\ UNCHANGED <<tracker, cis>>
          ELSE /\ tracker' = [tracker EXCEPT ![cis.key].status = TransitionTo[cis.id]]
               /\ cis' = Absent
               /\ pc' = StatusChanges[pc].next
               /\ error' = error
    /\ UNCHANGED <<email, type, fields, issues, start, ci, tracker0, outside>>

\* The `updates` of the two handlers.
FieldUpdates ==
    [p \in {"sub_change_fields", "wd_change_fields"} |->
        IF p = "sub_change_fields"
        THEN [assignee |-> None, curation_status |-> "Submitted"]
        ELSE [resolution |-> "Won't Do", curation_status |-> "Withdrawn"]]

\* The tracker's issue after a field update.
UpdatedIssue(issue, updates) ==
    [f \in DOMAIN issue |-> IF f \in DOMAIN updates THEN updates[f] ELSE issue[f]]

change_issue_fields ==
    /\ pc \in DOMAIN FieldUpdates
    /\ calls' = Append(calls, [op |-> "updateFields", key |-> ci.key,
                               fields |-> FieldUpdates[pc]])
    /\ \E outcome \in Outcomes(ApiOutcomesNoBody) :
       /\ outcomes' = Append(outcomes, [outcome |-> outcome])
       /\ IF outcome # "ok"
          THEN Abort(ApiError(outcome)) /\ UNCHANGED tracker
          ELSE /\ tracker' = [tracker EXCEPT
                                 ![ci.key] = UpdatedIssue(@, FieldUpdates[pc])]
               /\ pc' = "done"
               /\ error' = error
    /\ UNCHANGED <<email, type, fields, issues, start, ci, cis, tracker0, outside>>

\* create_payload with a slip: dataset name and depositor exchanged.
create_payload_swapped(doi, dataset_name, depositor) ==
    [project |-> "RDS", issuetype |-> "Curation",
     summary |-> "Dryad curation doi:" \o doi,
     dataset_name |-> depositor, doi |-> doi, depositor |-> dataset_name,
     curation_status |-> "Submitted"]

\* create_payload with a slip: the summary carries a stamp that differs from
\* one run to the next.
create_payload_stamped(doi, dataset_name, depositor) ==
    [project |-> "RDS", issuetype |-> "Curation",
     summary |-> <<"Dryad curation doi:" \o doi, runs>>,
     dataset_name |-> dataset_name, doi |-> doi, depositor |-> depositor,
     curation_status |-> "Submitted"]

\* The payload of create_curation_issue (its rich-text description apart).
create_payload(doi, dataset_name, depositor) ==
    [project |-> "RDS", issuetype |-> "Curation",
     summary |-> "Dryad curation doi:" \o doi,
     dataset_name |-> dataset_name, doi |-> doi, depositor |-> depositor,
     curation_status |-> "Submitted"]

\* "description": text_to_adf_json(email_text): the paragraphs of the whole
\* text, which keep every line of it that is not blank.
description(email_text) == [type |-> "doc", paragraphs |-> email_text]

\* The issue the tracker makes of a payload; the workflow sets its status.
CreatedIssue(payload, status) ==
    [status |-> status, doi |-> payload.doi, assignee |-> None,
     resolution |-> None, curation_status |-> payload.curation_status]

create_curation_issue ==
    /\ pc = "create_curation_issue"
    /\ LET payload == create_payload(fields.doi, fields.dataset_name, fields.depositor) IN
       /\ calls' = Append(calls, [op |-> "createIssue", fields |-> payload,
                                  description |-> description(email)])
       /\ \E outcome \in Outcomes(ApiOutcomes), status \in Statuses :
          /\ outcomes' = Append(outcomes,
                IF outcome = "ok"
                THEN [outcome |-> outcome, key |-> Len(tracker) + 1]
                ELSE [outcome |-> outcome])
          /\ IF outcome = "status"
             THEN Abort(ApiError(outcome)) /\ UNCHANGED tracker
             ELSE /\ tracker' = Append(tracker, CreatedIssue(payload, status))
                  /\ IF outcome = "shape"
                     THEN Abort(ApiError(outcome))
                     ELSE pc' = "done" /\ error' = error
    /\ UNCHANGED <<email, type, fields, issues, start, ci, cis, tracker0, outside>>

Next ==
    \/ process_email
    \/ process_submission_email_parse
    \/ process_withdrawal_email_parse
    \/ get_curation_issues
    \/ get_curation_issue_by_doi
    \/ process_submission_email_disposition
    \/ process_withdrawal_email_disposition
    \/ change_issue_status_get
    \/ change_issue_status_post
    \/ change_issue_fields
    \/ create_curation_issue

Spec == Init /\ [][Next]_vars

(* ------------------------ what the claims speak of --------------------- *)

\* The types whose marker phrase the email text contains.
TypesPresent == {t \in DOMAIN markers : markers[t] \in email.phrases}

\* The email is a submission (withdrawal) email all of whose fields are found.
SubmissionEmail ==
    /\ TypesPresent = {"submission"}
    /\ email.dear # None /\ email.titled # None /\ email.subdoi # None
WithdrawalEmail ==
    /\ TypesPresent = {"withdrawal"}
    /\ email.wddoi # None

\* The keys of the issues that carried a DOI when the run started.
KeysWithDoi(doi) == {k \in DOMAIN tracker0 : tracker0[k].doi = doi}

\* The calls of the run other than the searches of its issue scan.
OtherCalls == SelectSeq(calls, LAMBDA c : c.op # "searchIssues")
SearchCalls == SelectSeq(calls, LAMBDA c : c.op = "searchIssues")
WriteOps == {"createIssue", "applyTransition", "updateFields"}
NoWriteCall == \A i \in DOMAIN calls : calls[i].op \notin WriteOps

\* Expected calls: allowed transitions of k, a status change of k to a status,
\* a field update of k, the creation of an issue.
ExpectGet(k) == [op |-> "getAllowedTransitions", key |-> k]
ExpectChange(k, to) == [op |-> "applyTransition", key |-> k, to |-> to]
ExpectUpdate(k, updates) == [op |-> "updateFields", key |-> k, fields |-> updates]

Conforms(c, e) ==
    /\ c.op = e.op
    /\ CASE e.op = "getAllowedTransitions" -> c = e
         [] e.op = "applyTransition" -> c.key = e.key /\ TransitionTo[c.id] = e.to
         [] e.op = "updateFields" -> c = e
         [] e.op = "createIssue" -> c.fields = e.fields

\* The calls s are the first calls of the plan, in its order.
FollowsPlan(s, plan) ==
    /\ Len(s) <= Len(plan)
    /\ \A i \in DOMAIN s : Conforms(s[i], plan[i])

IssuedUpdate == \E i \in DOMAIN calls : calls[i].op = "updateFields"

(* ------------------------------ claims --------------------------------- *)

\* C1: a submission email whose DOI is on no issue: the run's calls other than
\* searches are, at every moment, the first calls of "one createIssue carrying
\* the email's DOI, dataset name and depositor and curation-status Submitted",
\* and a run that completes has issued exactly that call and added that issue.
C1_Plan ==
    << [op |-> "createIssue",
        fields |-> [project |-> "RDS", issuetype |-> "Curation",
                    summary |-> "Dryad curation doi:" \o email.subdoi,
                    dataset_name |-> email.titled, doi |-> email.subdoi,
                    depositor |-> email.dear, curation_status |-> "Submitted"]] >>

C1_CreateOnce ==
    (SubmissionEmail /\ KeysWithDoi(email.subdoi) = {}) =>
        /\ FollowsPlan(OtherCalls, C1_Plan)
        /\ pc = "done" =>
              /\ Len(OtherCalls) = 1
              /\ Len(tracker) = Len(tracker0) + 1
              /\ tracker[Len(tracker)].doi = email.subdoi
              /\ tracker[Len(tracker)].curation_status = "Submitted"
              /\ SubSeq(tracker, 1, Len(tracker0)) = tracker0

C1_Witness ==
    /\ SubmissionEmail /\ KeysWithDoi(email.subdoi) = {}
    /\ Len(tracker0) = MaxIssues
    /\ pc = "done"
    /\ Len(OtherCalls) = 1 /\ OtherCalls[1].op = "createIssue"

\* C2: a submission email whose DOI is on one issue, of status Waiting on Peer
\* Review: the calls other than searches are the first calls of "transitions,
\* change to In Progress, transitions, change to To Do, update assignee = null
\* and curation-status = Submitted", all on that issue; a completed run issued
\* all five; once the update is issued the issue is in To Do.
C2_Plan(k) ==
    << ExpectGet(k), ExpectChange(k, "In Progress"),
       ExpectGet(k), ExpectChange(k, "To Do"),
       ExpectUpdate(k, [assignee |-> None, curation_status |-> "Submitted"]) >>

C2_PeerReviewToToDo ==
    \A k \in DOMAIN tracker0 :
        (/\ SubmissionEmail
         /\ KeysWithDoi(email.subdoi) = {k}
         /\ tracker0[k].status = "Waiting on Peer Review") =>
            /\ FollowsPlan(OtherCalls, C2_Plan(k))
            /\ IssuedUpdate => tracker[k].status = "To Do"
            /\ pc = "done" =>
                  /\ Len(OtherCalls) = 5
                  /\ tracker[k].assignee = None
                  /\ tracker[k].curation_status = "Submitted"

C2_Witness ==
    \E k \in DOMAIN tracker0 :
        /\ SubmissionEmail
        /\ KeysWithDoi(email.subdoi) = {k}
        /\ tracker0[k].status = "Waiting on Peer Review"
        /\ pc = "done"
        /\ Len(OtherCalls) = 5
        /\ tracker[k].status = "To Do"

\* C3: a withdrawal email whose DOI is on one issue, of a status other than In
\* Progress and Resolved: the calls other than searches are the first calls of
\* "transitions, change to In Progress, transitions, change to Resolved,
\* update resolution = Won't Do and curation-status = Withdrawn".
C3_Plan(k) ==
    << ExpectGet(k), ExpectChange(k, "In Progress"),
       ExpectGet(k), ExpectChange(k, "Resolved"),
       ExpectUpdate(k, [resolution |-> "Won't Do", curation_status |-> "Withdrawn"]) >>

C3_WithdrawTwoHops ==
    \A k \in DOMAIN tracker0 :
        (/\ WithdrawalEmail
         /\ KeysWithDoi(email.wddoi) = {k}
         /\ tracker0[k].status \notin {"In Progress", "Resolved"}) =>
            /\ FollowsPlan(OtherCalls, C3_Plan(k))
            /\ IssuedUpdate => tracker[k].status = "Resolved"
            /\ pc = "done" =>
                  /\ Len(OtherCalls) = 5
                  /\ tracker[k].resolution = "Won't Do"
                  /\ tracker[k].curation_status = "Withdrawn"

C3_Witness ==
    \E k \in DOMAIN tracker0 :
        /\ WithdrawalEmail
        /\ KeysWithDoi(email.wddoi) = {k}
        /\ tracker0[k].status = "To Do"
        /\ pc = "done"
        /\ Len(OtherCalls) = 5
        /\ tracker[k].status = "Resolved"

\* C4: a withdrawal email whose DOI is on one issue, of status In Progress:
\* the calls other than searches are the first calls of "transitions, change
\* to Resolved, update resolution = Won't Do and curation-status = Withdrawn".
C4_Plan(k) ==
    << ExpectGet(k), ExpectChange(k, "Resolved"),
       ExpectUpdate(k, [resolution |-> "Won't Do", curation_status |-> "Withdrawn"]) >>

C4_WithdrawOneHop ==
    \A k \in DOMAIN tracker0 :
        (/\ WithdrawalEmail
         /\ KeysWithDoi(email.wddoi) = {k}
         /\ tracker0[k].status = "In Progress") =>
            /\ FollowsPlan(OtherCalls, C4_Plan(k))
            /\ IssuedUpdate => tracker[k].status = "Resolved"
            /\ pc = "done" =>
                  /\ Len(OtherCalls) = 3
                  /\ tracker[k].resolution = "Won't Do"
                  /\ tracker[k].curation_status = "Withdrawn"

C4_Witness ==
    \E k \in DOMAIN tracker0 :
        /\ WithdrawalEmail
        /\ KeysWithDoi(email.wddoi) = {k}
        /\ tracker0[k].status = "In Progress"
        /\ pc = "done"
        /\ Len(OtherCalls) = 3
        /\ tracker[k].status = "Resolved"

\* C5: in the no-op dispositions (submission with one issue of a status other
\* than Waiting on Peer Review, withdrawal with no issue, withdrawal with one
\* issue of status Resolved) the run issues searches only and the tracker's
\* issues stay as they were.
NoOpDisposition ==
    \/ /\ SubmissionEmail
       /\ \E k \in DOMAIN tracker0 :
             /\ KeysWithDoi(email.subdoi) = {k}
             /\ tracker0[k].status # "Waiting on Peer Review"
    \/ /\ WithdrawalEmail
       /\ KeysWithDoi(email.wddoi) = {}
    \/ /\ WithdrawalEmail
       /\ \E k \in DOMAIN tracker0 :
             /\ KeysWithDoi(email.wddoi) = {k}
             /\ tracker0[k].status = "Resolved"

C5_NoOpLeavesTracker ==
    NoOpDisposition => (OtherCalls = <<>> /\ tracker = tracker0)

C5_Witness ==
    /\ NoOpDisposition
    /\ pc = "done"
    /\ Len(SearchCalls) >= 2
    /\ tracker = tracker0

\* C6: an email classified publication or peer_review: the run makes no call
\* at all, ends without error right after classifying, and leaves the
\* tracker's issues as they were.
C6_IgnoredTypes ==
    (TypesPresent = {"publication"} \/ TypesPresent = {"peer_review"}) =>
        /\ calls = <<>>
        /\ tracker = tracker0
        /\ pc \in {"process_email", "done"}
        /\ error = None

C6_Witness ==
    /\ TypesPresent = {"peer_review"}
    /\ email.subdoi # None /\ email.wddoi # None
    /\ Len(tracker0) >= 1
    /\ pc = "done"

\* C7: once the email is classified, the type is T exactly when the text
\* contains the marker phrase of T and of no other type; a text with no marker
\* phrase, or with those of two or more types, aborts the run with a
\* classification error and without any call.
ClassificationErrors ==
    {"unrecognized email message type", "ambiguous email message type"}

C7_Classify ==
    pc # "process_email" =>
        /\ \A t \in DOMAIN markers : (type = t) <=> (TypesPresent = {t})
        /\ (error \in ClassificationErrors) <=> (Cardinality(TypesPresent) # 1)
        /\ Cardinality(TypesPresent) # 1 =>
              /\ pc = "aborted"
              /\ type = None
              /\ calls = <<>>
              /\ tracker = tracker0

C7_Witness ==
    /\ Cardinality(TypesPresent) = 2
    /\ "submission" \in TypesPresent
    /\ pc = "aborted"
    /\ error = "ambiguous email message type"

\* C8: get_curation_issue_by_doi, over the issues fetched: none with the DOI
\* gives None, exactly one gives that issue, more than one fails with the
\* multiple-matches error; a run that failed so has issued no create,
\* transition or update call and left the tracker as it was.
MultipleMatches == "more than one curation issue matches DOI"
FetchedWithDoi == {k \in DOMAIN issues : issues[k].doi = fields.doi}

C8_Step ==
    pc = "get_curation_issue_by_doi" =>
        /\ Cardinality(FetchedWithDoi) = 0 =>
              pc' = "disposition" /\ ci' = Absent
        /\ Cardinality(FetchedWithDoi) = 1 =>
              pc' = "disposition" /\ \A k \in FetchedWithDoi : ci' = issues[k]
        /\ Cardinality(FetchedWithDoi) > 1 =>
              pc' = "aborted" /\ error' = MultipleMatches /\ ci' = Absent
        /\ UNCHANGED <<tracker, calls>>

C8_FindByDoi ==
    /\ [][C8_Step]_vars
    /\ [](error = MultipleMatches =>
            pc = "aborted" /\ NoWriteCall /\ tracker = tracker0)

C8_Witness ==
    /\ pc = "aborted"
    /\ error = MultipleMatches
    /\ Cardinality(FetchedWithDoi) = 2
    /\ Len(SearchCalls) >= 2

\* C9: the issue scan against the unchanged tracker: every search asks for the
\* offset equal to the number of issues received so far (0 first), the
\* offsets increase, there are at most one more searches than issues, the
\* issues accumulated are the tracker's first ones in order, each once, and
\* when the scan has returned they are all of them.
ScanReturned ==
    pc \in {"get_curation_issue_by_doi", "disposition", "create_curation_issue"}
           \cup DOMAIN StatusChanges \cup DOMAIN FieldUpdates

C9_Step ==
    pc = "get_curation_issues" =>
        /\ calls' = Append(calls, [op |-> "searchIssues", startAt |-> Len(issues)])
        /\ \/ pc' = "aborted" /\ issues' = issues
           \/ pc' = "get_curation_issue_by_doi" /\ issues' = issues
              /\ Len(issues) = Len(tracker)
           \/ pc' = pc /\ Len(issues') > Len(issues)

C9_Scan ==
    /\ start = Len(issues)
    /\ Len(issues) <= Len(tracker0)
    /\ \A k \in DOMAIN issues : issues[k] = CurationIssue(tracker0, k)
    /\ SearchCalls # <<>> => SearchCalls[1].startAt = 0
    /\ \A i \in 1..(Len(SearchCalls) - 1) :
          SearchCalls[i + 1].startAt > SearchCalls[i].startAt
    /\ Len(SearchCalls) <= Len(tracker0) + 1
    /\ ScanReturned =>
          /\ issues = [k \in DOMAIN tracker0 |-> CurationIssue(tracker0, k)]
          /\ SearchCalls[Len(SearchCalls)].startAt = Len(tracker0)

C9_Pagination ==
    /\ []C9_Scan
    /\ [][C9_Step]_vars

C9_Witness ==
    /\ pc = "get_curation_issue_by_doi"
    /\ Len(tracker0) = MaxIssues
    /\ Len(SearchCalls) = 3
    /\ Len(issues) = MaxIssues

\* C10: a status change is applied only right after the allowed transitions
\* of the same issue were asked for, with an id of that response whose target
\* is the status asked for; when no transition of the response has that
\* target the run aborts there, and an aborted run takes no further step.
StatusNotFound == "new status not found in allowable transitions"
LastCall == calls[Len(calls)]

C10_Apply ==
    (calls' # calls /\ calls'[Len(calls')].op = "applyTransition") =>
        /\ calls # <<>>
        /\ LastCall = [op |-> "getAllowedTransitions", key |-> calls'[Len(calls')].key]
        /\ cis # Absent
        /\ cis.key = ci.key
        /\ calls' = Append(calls, [op |-> "applyTransition", key |-> cis.key,
                                   id |-> cis.id])
        /\ \E j \in DOMAIN cis.transitions : cis.transitions[j] = cis.id
        /\ TransitionTo[cis.id] = cis.new_status
        /\ cis.new_status = StatusChanges[pc].new_status

C10_Frame ==
    /\ \A i \in DOMAIN calls :
          calls[i].op = "applyTransition" =>
              /\ i > 1
              /\ calls[i - 1] = [op |-> "getAllowedTransitions", key |-> calls[i].key]
    /\ (/\ cis # Absent
        /\ \A j \in DOMAIN cis.transitions :
              TransitionTo[cis.transitions[j]] # cis.new_status) =>
          /\ pc = "aborted"
          /\ error = StatusNotFound
          /\ LastCall = [op |-> "getAllowedTransitions", key |-> cis.key]
    /\ error = StatusNotFound =>
          /\ cis # Absent
          /\ \A j \in DOMAIN cis.transitions :
                TransitionTo[cis.transitions[j]] # cis.new_status

C10_TransitionFromResponse ==
    /\ []C10_Frame
    /\ [][C10_Apply]_vars
    /\ [][pc # "aborted"]_vars

C10_Witness ==
    /\ pc = "aborted"
    /\ error = StatusNotFound
    /\ cis.transitions # <<>>
    /\ Len(OtherCalls) = 3
    /\ OtherCalls[2].op = "applyTransition"

\* C11: a call that comes back with another status code than the expected one
\* is the last call of the run: the run is aborted with "API call failed",
\* and an aborted run takes no further step (no retry, no other call).
ApiCallFailed == "API call failed"

C11_Failed ==
    /\ Len(outcomes) = Len(calls)
    /\ \A i \in DOMAIN outcomes :
          outcomes[i].outcome = "status" =>
              /\ i = Len(calls)
              /\ pc = "aborted"
              /\ error = ApiCallFailed
    /\ error = ApiCallFailed =>
          /\ calls # <<>>
          /\ outcomes[Len(outcomes)].outcome = "status"

C11_FailFast ==
    /\ []C11_Failed
    /\ [][pc # "aborted" /\ pc # "done"]_vars

C11_Witness ==
    /\ pc = "aborted"
    /\ error = ApiCallFailed
    /\ Len(OtherCalls) = 4
    /\ calls[Len(calls)].op = "applyTransition"
    /\ outcomes[Len(outcomes)].outcome = "status"

\* C12: a submission email one of whose fields (depositor, dataset name, DOI)
\* is not found, or a withdrawal email whose DOI is not found, aborts the run
\* with the parse error of the first missing field, with no field extracted,
\* no call issued and the tracker as it was; and no run issues a call before
\* it has extracted its fields.
ParseError(name) == "parse error: unable to locate " \o name

SubmissionParseError ==
    IF email.dear = None THEN ParseError("depositor name")
    ELSE IF email.titled = None THEN ParseError("dataset name")
    ELSE ParseError("DOI")

C12_ExtractionFirst ==
    /\ (/\ TypesPresent = {"submission"}
        /\ (email.dear = None \/ email.titled = None \/ email.subdoi = None)) =>
          /\ calls = <<>> /\ tracker = tracker0 /\ fields = Absent
          /\ pc \in {"process_email", "process_submission_email", "aborted"}
          /\ pc = "aborted" => error = SubmissionParseError
    /\ (TypesPresent = {"withdrawal"} /\ email.wddoi = None) =>
          /\ calls = <<>> /\ tracker = tracker0 /\ fields = Absent
          /\ pc \in {"process_email", "process_withdrawal_email", "aborted"}
          /\ pc = "aborted" => error = ParseError("DOI")
    /\ calls # <<>> => (fields # Absent /\ fields.doi # None)

C12_Witness ==
    /\ TypesPresent = {"submission"}
    /\ email.dear # None /\ email.titled # None /\ email.subdoi = None
    /\ email.wddoi # None
    /\ Len(tracker0) >= 1
    /\ pc = "aborted"
    /\ error = ParseError("DOI")

(* ------------------- extract_field on the characters ------------------- *)

\* Longest text given to a text function on its own.
MaxText == 5

\* The characters of a text.  A literal of a pattern stands as one character:
\* "Dear", "Thank..." (`Thank you for your submission to Dryad titled, `),
\* "(DOI): " (`A unique digital object identifier (DOI): https://doi.org/`),
\* "DOI: " (`DOI: https://doi.org/`) and "10.".
Whitespace == {" ", "\t", "\n"}
Digits == {"5"}
DoiChars == Digits \cup {"a", "."}

PatternChars ==
    [name \in {"depositor name", "dataset name", "DOI", "withdrawal DOI"} |->
        CASE name = "depositor name" -> {"Dear", " ", "\t", "J", ",", "\n"}
          [] name = "dataset name" -> {"Thank...", "\"", ".", "a", " ", "\n"}
          [] name = "DOI" -> {"(DOI): ", "10.", "5", "/", "a", "."}
          [] name = "withdrawal DOI" -> {"DOI: ", "10.", "5", "/", "a", " "}]

\* ^ in multi-line mode: at the start of the text or after a newline.
LineStart(t, p) == p = 1 \/ t[p - 1] = "\n"
\* The first position from p on that holds a newline, or that of the end.
LineEnd(t, p) ==
    IF \E e \in p..Len(t) : t[e] = "\n"
    THEN CHOOSE e \in p..Len(t) : t[e] = "\n" /\ \A f \in p..(e - 1) : t[f] # "\n"
    ELSE Len(t) + 1
\* The first position from p on that holds no character of S, or that of the end.
RunEnd(t, p, S) ==
    IF \E e \in p..Len(t) : t[e] \notin S
    THEN CHOOSE e \in p..Len(t) : t[e] \notin S /\ \A f \in p..(e - 1) : t[f] \in S
    ELSE Len(t) + 1

\* ^Dear +([^ ].*),$ matched at p: the group's first and last position.
\* ` +` takes every space, [^ ] any other character (a newline also), `.*`
\* the rest of that line but its last character, which is the comma.
DearMatch(t, p) ==
    LET c == RunEnd(t, p + 1, {" "})
        e == LineEnd(t, c + 1)
    IN  IF /\ LineStart(t, p) /\ t[p] = "Dear"
           /\ c >= p + 2 /\ c <= Len(t)
           /\ e - 1 > c /\ t[e - 1] = ","
        THEN <<c, e - 2>>
        ELSE <<>>

\* ^Thank you for your submission to Dryad titled, "(.*)"\.$ matched at p.
TitledMatch(t, p) ==
    LET e == LineEnd(t, p + 1) IN
    IF /\ LineStart(t, p) /\ t[p] = "Thank..."
       /\ p + 1 <= Len(t) /\ t[p + 1] = "\""
       /\ e - 2 > p + 1 /\ t[e - 2] = "\"" /\ t[e - 1] = "."
    THEN <<p + 2, e - 3>>
    ELSE <<>>

\* <literal>(10\.[0-9]+/[0-9A-Za-z.]+) matched at p.
DoiMatch(t, p, literal) ==
    LET d == RunEnd(t, p + 2, Digits)
        e == RunEnd(t, d + 1, DoiChars)
    IN  IF /\ t[p] = literal
           /\ p + 1 <= Len(t) /\ t[p + 1] = "10."
           /\ d > p + 2 /\ d <= Len(t) /\ t[d] = "/"
           /\ e > d + 1
        THEN <<p + 1, e - 1>>
        ELSE <<>>

PatternMatch(t, p, name) ==
    CASE name = "depositor name" -> DearMatch(t, p)
      [] name = "dataset name" -> TitledMatch(t, p)
      [] name = "DOI" -> DoiMatch(t, p, "(DOI): ")
      [] name = "withdrawal DOI" -> DoiMatch(t, p, "DOI: ")

\* re.search(pattern, email_text, re.M)[1]: the group of the leftmost match
\* (None: no match, and the subscript raises).
re_search_group(t, name) ==
    LET P == {p \in 1..Len(t) : PatternMatch(t, p, name) # <<>>} IN
    IF P = {} THEN None
    ELSE LET p == CHOOSE q \in P : \A r \in P : q <= r
             m == PatternMatch(t, p, name)
         IN  SubSeq(t, m[1], m[2])

\* str.strip()
strip(s) ==
    LET K == {k \in 1..Len(s) : s[k] \notin Whitespace} IN
    IF K = {} THEN <<>>
    ELSE SubSeq(s, CHOOSE k \in K : \A l \in K : k <= l,
                   CHOOSE k \in K : \A l \in K : k >= l)

\* extract_field on the characters of the text.
extract_field_text(t, name) ==
    LET g == re_search_group(t, name) IN
    IF g = None
    THEN [ok |-> FALSE, value |-> "parse error: unable to locate " \o name]
    ELSE [ok |-> TRUE, value |-> strip(g)]

\* A run that is not started: nothing of it but the position given.
NoRun(position) ==
    /\ tracker = <<>> /\ tracker0 = <<>>
    /\ email = Absent
    /\ pc = position
    /\ type = None /\ fields = Absent /\ issues = <<>> /\ start = 0
    /\ ci = Absent /\ cis = Absent /\ calls = <<>> /\ error = None
    /\ outcomes = <<>> /\ faulty = FALSE /\ other = Absent /\ runs = 0
    /\ first = Absent

InitExtract ==
    /\ NoRun("extract_field")
    /\ \E name \in DOMAIN PatternChars :
          text \in [field : {name}, chars : SeqsUpTo(PatternChars[name], MaxText)]
    /\ result = Absent

extract_field_call ==
    /\ pc = "extract_field"
    /\ result' = extract_field_text(text.chars, text.field)
    /\ pc' = "returned"
    /\ UNCHANGED <<tracker, email, type, fields, issues, start, ci, cis, calls, error,
                   tracker0, outcomes, faulty, other, runs, first, text>>

SpecExtract == InitExtract /\ [][extract_field_call]_vars

\* C13: a field that extract_field returns without error is a non-empty
\* string, for each of the patterns of parse_submission_email and
\* parse_withdrawal_email.
C13_FieldsNonEmpty ==
    (pc = "returned" /\ result.ok) => result.value # <<>>

\* The DOI patterns alone never yield an empty field.
C13_DoiNonEmpty ==
    (pc = "returned" /\ result.ok /\ text.field \in {"DOI", "withdrawal DOI"}) =>
        result.value # <<>>

(* ----------------------------- text_to_adf_json ------------------------ *)

line_separator == "\\u2028"
BodyChars == {"a", "b", " ", "\n", line_separator}

\* text.replace(line_separator, "\n")
replace_line_separator(t) ==
    [k \in DOMAIN t |-> IF t[k] = line_separator THEN "\n" ELSE t[k]]

\* re.split(r"\n+", s): the pieces of s between its runs of newlines.
RECURSIVE re_split_newlines(_)
re_split_newlines(s) ==
    IF \A k \in DOMAIN s : s[k] # "\n"
    THEN <<s>>
    ELSE LET i == RunEnd(s, 1, {c \in BodyChars : c # "\n"})
             j == RunEnd(s, i, {"\n"})
         IN  <<SubSeq(s, 1, i - 1)>> \o re_split_newlines(SubSeq(s, j, Len(s)))

\* re_split_newlines with a slip: the pattern is \n\n+, so that only blank
\* lines separate paragraphs.
RECURSIVE re_split_blank_lines(_)
re_split_blank_lines(s) ==
    IF \A k \in 1..(Len(s) - 1) : ~(s[k] = "\n" /\ s[k + 1] = "\n")
    THEN <<s>>
    ELSE LET i == CHOOSE k \in 1..(Len(s) - 1) :
                     /\ s[k] = "\n" /\ s[k + 1] = "\n"
                     /\ \A l \in 1..(k - 1) : ~(s[l] = "\n" /\ s[l + 1] = "\n")
             j == RunEnd(s, i, {"\n"})
         IN  <<SubSeq(s, 1, i - 1)>> \o re_split_blank_lines(SubSeq(s, j, Len(s)))

\* The pieces that text_to_adf_json splits the text into.
split_paragraphs(s) == re_split_newlines(s)

\* paragraphs = [p.strip() for p in re.split(...) if len(p.strip()) > 0]
paragraphs_of(t) ==
    LET pieces == split_paragraphs(replace_line_separator(t))
        kept == SelectSeq(pieces, LAMBDA p : Len(strip(p)) > 0)
    IN  [k \in DOMAIN kept |-> strip(kept[k])]

\* text_to_adf_json: the document of the paragraphs.
text_to_adf_json(t) ==
    [version |-> "1", type |-> "doc",
     content |-> [k \in DOMAIN paragraphs_of(t) |->
                    [type |-> "paragraph",
                     content |-> <<[type |-> "text", text |-> paragraphs_of(t)[k]]>>]]]

InitAdf ==
    /\ NoRun("text_to_adf_json")
    /\ text \in [field : {"body"}, chars : SeqsUpTo(BodyChars, MaxText)]
    /\ result = Absent

text_to_adf_json_call ==
    /\ pc = "text_to_adf_json"
    /\ result' = text_to_adf_json(text.chars)
    /\ pc' = "returned"
    /\ UNCHANGED <<tracker, email, type, fields, issues, start, ci, cis, calls, error,
                   tracker0, outcomes, faulty, other, runs, first, text>>

SpecAdf == InitAdf /\ [][text_to_adf_json_call]_vars

\* The texts of the paragraph nodes of the document returned.
ParagraphTexts == [k \in DOMAIN result.content |-> result.content[k].content[1].text]

\* The lines of a text: its pieces between single line ends (a newline or a
\* line separator), the empty ones included.
LineEnds == {"\n", line_separator}
RECURSIVE LinesOf(_)
LinesOf(t) ==
    IF \A k \in DOMAIN t : t[k] \notin LineEnds
    THEN <<t>>
    ELSE LET i == CHOOSE k \in DOMAIN t :
                     t[k] \in LineEnds /\ \A l \in 1..(k - 1) : t[l] \notin LineEnds
         IN  <<SubSeq(t, 1, i - 1)>> \o LinesOf(SubSeq(t, i + 1, Len(t)))

\* The blocks of a text: its runs of consecutive non-blank lines, each as its
\* trimmed text (its lines joined by newlines).
RECURSIVE BlocksOf(_, _)
BlocksOf(lines, block) ==
    LET closed == IF block = <<>> THEN <<>> ELSE <<strip(block)>> IN
    IF lines = <<>> THEN closed
    ELSE IF strip(Head(lines)) = <<>>
         THEN closed \o BlocksOf(Tail(lines), <<>>)
         ELSE BlocksOf(Tail(lines),
                       IF block = <<>> THEN Head(lines)
                       ELSE block \o <<"\n">> \o Head(lines))

Blocks == BlocksOf(LinesOf(text.chars), <<>>)
NonBlankLines == SelectSeq(LinesOf(text.chars), LAMBDA l : strip(l) # <<>>)
SingleLineBlocks == \A k \in DOMAIN Blocks : \A i \in DOMAIN Blocks[k] : Blocks[k][i] # "\n"

\* C14, as claimed: the paragraphs are the trimmed non-empty blocks of the
\* text, in order, also when a block spans several lines.
C14_ParagraphPerBlock ==
    pc = "returned" => ParagraphTexts = Blocks

\* C14, amended: the paragraphs are the trimmed non-blank lines of the text,
\* in order (a line ends at a newline or at a line separator); no paragraph is
\* empty, holds a line end or starts or ends with whitespace; and they are the
\* trimmed blocks when every block is a single line.
C14_ParagraphPerLine ==
    (pc = "returned" /\ text.field = "body") =>
        /\ Len(ParagraphTexts) = Len(NonBlankLines)
        /\ \A k \in DOMAIN ParagraphTexts :
              /\ ParagraphTexts[k] = strip(NonBlankLines[k])
              /\ ParagraphTexts[k] # <<>>
              /\ \A i \in DOMAIN ParagraphTexts[k] : ParagraphTexts[k][i] \notin LineEnds
              /\ ParagraphTexts[k][1] \notin Whitespace
              /\ ParagraphTexts[k][Len(ParagraphTexts[k])] \notin Whitespace
        /\ SingleLineBlocks => ParagraphTexts = Blocks

C14_Witness ==
    /\ pc = "returned" /\ text.field = "body"
    /\ Len(Blocks) = 2
    /\ SingleLineBlocks
    /\ Len(ParagraphTexts) = 2
    /\ \E k \in 1..(Len(text.chars) - 1) :
          text.chars[k] = "\n" /\ text.chars[k + 1] = "\n"

(* ------------------------- two runs, one tracker ----------------------- *)

\* The issues the tracker holds, at most, when two runs start.
MaxShared == 1

\* The emails that fit a template: one marker phrase and every field of the
\* submission or withdrawal template.
TemplateEmails ==
    {e \in Emails :
        /\ e.phrases \in {{markers["submission"]}, {markers["withdrawal"]}}
        /\ e.dear # None /\ e.titled # None /\ e.subdoi # None /\ e.wddoi # None}

\* The state of a run that is its own: its email and its local variables.
RunState ==
    [email |-> email, pc |-> pc, type |-> type, fields |-> fields, issues |-> issues,
     start |-> start, ci |-> ci, cis |-> cis, calls |-> calls, error |-> error,
     outcomes |-> outcomes]

StartOfRun(e) ==
    [email |-> e, pc |-> "process_email", type |-> None, fields |-> Absent,
     issues |-> <<>>, start |-> 0, ci |-> Absent, cis |-> Absent, calls |-> <<>>,
     error |-> None, outcomes |-> <<>>]

\* Two processes run the program against the same tracker, one of them on a
\* submission email; nothing but the tracker is shared, and nothing orders
\* their calls.
InitTwoRuns ==
    /\ tracker \in {t \in Trackers : Len(t) <= MaxShared}
    /\ tracker0 = tracker
    /\ email \in TemplateEmails
    /\ pc = "process_email"
    /\ type = None /\ fields = Absent /\ issues = <<>> /\ start = 0
    /\ ci = Absent /\ cis = Absent /\ calls = <<>> /\ error = None
    /\ outcomes = <<>>
    /\ other \in {StartOfRun(e) : e \in {t \in TemplateEmails :
                                            t.phrases = {markers["submission"]}}}
    /\ faulty = FALSE
    /\ runs = 2
    /\ first = Absent /\ text = Absent /\ result = Absent

\* The positions from which a run's next step is its own: it makes no call.
LocalPositions ==
    {"process_email", "process_submission_email", "process_withdrawal_email",
     "get_curation_issue_by_doi", "disposition"}

\* The scheduler lets the other process, which has steps left, take the next
\* steps.  (It may do so anywhere; a switch before a step that makes no call
\* leads to no state of the tracker that a switch before the next call does
\* not lead to.)
switch ==
    /\ other # Absent
    /\ pc \notin LocalPositions
    /\ other.pc \notin {"done", "aborted"}
    /\ other' = RunState
    /\ email' = other.email
    /\ pc' = other.pc
    /\ type' = other.type
    /\ fields' = other.fields
    /\ issues' = other.issues
    /\ start' = other.start
    /\ ci' = other.ci
    /\ cis' = other.cis
    /\ calls' = other.calls
    /\ error' = other.error
    /\ outcomes' = other.outcomes
    /\ UNCHANGED <<tracker, tracker0, faulty, runs, first, text, result>>

SpecTwoRuns == InitTwoRuns /\ [][Next \/ switch]_vars

\* A run that has finished its lookup for the DOI and found no issue.
FoundNone(r) ==
    /\ r.type = "submission"
    /\ r.ci = Absent
    /\ r.pc \in {"disposition", "create_curation_issue", "done"}

Creations(r) == SelectSeq(r.calls, LAMBDA c : c.op = "createIssue")
WithDoi(tr, doi) == {k \in DOMAIN tr : tr[k].doi = doi}

\* C15: when two runs for submission emails of the same DOI have both
\* finished their lookup with no issue found, each goes on to createIssue:
\* once both have ended, each has called createIssue once, for that DOI, and
\* the tracker holds two issues with the DOI, none of which it held before.
C15_BothCreate ==
    (/\ other # Absent
     /\ FoundNone(RunState) /\ FoundNone(other)
     /\ fields.doi = other.fields.doi) =>
        /\ pc \in {"disposition", "create_curation_issue", "done"}
        /\ \A r \in {RunState, other} :
              /\ r.error = None
              /\ Len(Creations(r)) = (IF r.pc = "done" THEN 1 ELSE 0)
              /\ \A i \in DOMAIN Creations(r) : Creations(r)[i].fields.doi = r.fields.doi
        /\ WithDoi(tracker0, fields.doi) = {}
        /\ (pc = "done" /\ other.pc = "done") =>
              /\ Cardinality(WithDoi(tracker, fields.doi)) = 2
              /\ Len(tracker) = Len(tracker0) + 2

C15_Witness ==
    /\ other # Absent
    /\ FoundNone(RunState) /\ FoundNone(other)
    /\ pc = "done" /\ other.pc = "done"
    /\ Cardinality(WithDoi(tracker, fields.doi)) = 2
    /\ Len(tracker0) > 0

(* --------------------- one run and another, compared ------------------- *)

\* Emails that fit the submission or the withdrawal template, with or without
\* a line that only the other template's DOI pattern finds.
HandledEmails ==
    {e \in Emails :
        /\ e.dear # None /\ e.titled # None
        /\ \/ e.phrases = {markers["submission"]} /\ e.subdoi # None
           \/ e.phrases = {markers["withdrawal"]} /\ e.wddoi # None}

InitPair ==
    /\ tracker \in {t \in Trackers : Len(t) <= MaxShared}
    /\ tracker0 = tracker
    /\ email \in HandledEmails
    /\ pc = "process_email"
    /\ type = None /\ fields = Absent /\ issues = <<>> /\ start = 0
    /\ ci = Absent /\ cis = Absent /\ calls = <<>> /\ error = None
    /\ outcomes = <<>>
    /\ faulty = TRUE
    /\ other = Absent
    /\ runs = 1
    /\ first = Absent /\ text = Absent /\ result = Absent

Ended == pc \in {"done", "aborted"}

\* The program is run once more, on an email of the same type and against the
\* tracker as the earlier run found it; the earlier run is kept for comparison.
second_run ==
    /\ runs = 1
    /\ Ended
    /\ first' = RunState
    /\ runs' = 2
    /\ tracker' = tracker0
    /\ email' \in {e \in HandledEmails : e.phrases = email.phrases}
    /\ pc' = "process_email"
    /\ type' = None /\ fields' = Absent /\ issues' = <<>> /\ start' = 0
    /\ ci' = Absent /\ cis' = Absent /\ calls' = <<>> /\ error' = None
    /\ outcomes' = <<>>
    /\ UNCHANGED <<tracker0, faulty, other, text, result>>

\* The collaborator answers the later run as it answered the earlier one:
\* a call that the earlier run issued too, at the same place, came back with
\* the same response.
SameResponses ==
    first # Absent =>
        \A i \in DOMAIN calls \cap DOMAIN first.calls :
            calls[i] = first.calls[i] => outcomes[i] = first.outcomes[i]

NextPair ==
    \/ process_email /\ SameResponses'
    \/ process_submission_email_parse /\ SameResponses'
    \/ process_withdrawal_email_parse /\ SameResponses'
    \/ get_curation_issues /\ SameResponses'
    \/ get_curation_issue_by_doi /\ SameResponses'
    \/ process_submission_email_disposition /\ SameResponses'
    \/ process_withdrawal_email_disposition /\ SameResponses'
    \/ change_issue_status_get /\ SameResponses'
    \/ change_issue_status_post /\ SameResponses'
    \/ change_issue_fields /\ SameResponses'
    \/ create_curation_issue /\ SameResponses'
    \/ second_run

SpecPair == InitPair /\ [][NextPair]_vars

\* (message type, issue presence, issue status) of a run that has looked up
\* its DOI.
Triple(r) ==
    <<r.type, r.ci # Absent, IF r.ci # Absent THEN r.ci.status ELSE None>>

LookedUp(r) ==
    \/ r.pc \notin LocalPositions \cup {"get_curation_issues", "aborted"}
    \/ r.pc = "disposition"
    \/ r.pc = "aborted" /\ \E i \in DOMAIN r.calls : r.calls[i].op # "searchIssues"

Operations(r) == [i \in DOMAIN r.calls |-> r.calls[i].op]
WithoutText(c) == IF c.op = "createIssue" THEN [op |-> c.op, fields |-> c.fields] ELSE c

\* C16, as claimed: two runs with the same (message type, issue presence,
\* issue status) and the same responses have issued the same calls with the
\* same arguments.
C16_SameTriple ==
    (/\ first # Absent /\ Ended
     /\ LookedUp(RunState) /\ LookedUp(first)
     /\ Triple(RunState) = Triple(first)
     /\ outcomes = first.outcomes) =>
        calls = first.calls

\* C16, amended: two runs on the same email text, answered alike, issue the
\* same calls with the same arguments, call by call, and end alike; two runs
\* that share the message type and the extracted fields, answered alike,
\* issue the same operations with the same arguments but for the description
\* of a created issue, which is made of the whole text.
C16_SameEmail ==
    first # Absent =>
        /\ (email = first.email) =>
              /\ Len(calls) <= Len(first.calls)
              /\ \A i \in DOMAIN calls : calls[i] = first.calls[i]
              /\ Ended => (calls = first.calls /\ pc = first.pc /\ error = first.error)
        /\ (fields # Absent /\ fields = first.fields) =>
              /\ Len(calls) <= Len(first.calls)
              /\ \A i \in DOMAIN calls : WithoutText(calls[i]) = WithoutText(first.calls[i])
              /\ Ended => Operations(RunState) = Operations(first)

C16_Witness ==
    /\ first # Absent /\ Ended
    /\ email = first.email
    /\ pc = "done"
    /\ Len(calls) > 5
    /\ calls = first.calls

(* ----------------------- the lookup, called twice ---------------------- *)

\* get_curation_issue_by_doi(doi), called on its own.
InitLookup ==
    /\ tracker \in Trackers
    /\ tracker0 = tracker
    /\ email = Absent
    /\ pc = "get_curation_issues"
    /\ type = None
    /\ fields \in [doi : IssueDois]
    /\ issues = <<>> /\ start = 0
    /\ ci = Absent /\ cis = Absent /\ calls = <<>> /\ error = None
    /\ outcomes = <<>>
    /\ faulty = TRUE
    /\ other = Absent
    /\ runs = 1
    /\ first = Absent /\ text = Absent /\ result = Absent

\* What a call of get_curation_issue_by_doi came to: the issue or None it
\* returned, or the error it raised.
LookupResult == [ci |-> ci, error |-> error]
Returned == pc = "disposition" \/ pc = "aborted"

\* The caller calls get_curation_issue_by_doi a second time, with the same
\* DOI.
lookup_again ==
    /\ runs = 1
    /\ Returned
    /\ first' = LookupResult
    /\ runs' = 2
    /\ pc' = "get_curation_issues"
    /\ issues' = <<>> /\ start' = 0
    /\ ci' = Absent /\ error' = None
    /\ UNCHANGED <<tracker, email, type, fields, cis, calls, tracker0, outcomes,
                   faulty, other, text, result>>

NextLookup ==
    \/ get_curation_issues
    \/ get_curation_issue_by_doi
    \/ lookup_again

SpecLookup == InitLookup /\ [][NextLookup]_vars

\* A result of the lookup proper: an issue, None, or the failure for several
\* matches (and not the failure of a call to the tracker).
Answered(r) == r.error \in {None, MultipleMatches}

\* C17: two successive lookups of the same DOI that both come to a result
\* come to the same result (the same issue, None, or the multiple-matches
\* failure); and no lookup, however it ends, issues a call other than a
\* search or changes the tracker.
C17_LookupTwice ==
    /\ tracker = tracker0
    /\ \A i \in DOMAIN calls : calls[i].op = "searchIssues"
    /\ (runs = 2 /\ Returned /\ Answered(LookupResult) /\ Answered(first)) =>
          /\ LookupResult = first
          /\ LET matching == WithDoi(tracker, fields.doi) IN
             /\ error = MultipleMatches <=> Cardinality(matching) > 1
             /\ ci = Absent <=> Cardinality(matching) # 1
             /\ ci # Absent => ci.key \in matching /\ ci = CurationIssue(tracker, ci.key)

C17_Witness ==
    /\ runs = 2 /\ Returned
    /\ Answered(first)
    /\ ci # Absent /\ ci.key = MaxIssues
    /\ LookupResult = first
    /\ Len(calls) > 4

(* ---------------------- a disposition that fails part-way -------------- *)

\* The status changes that the tracker applied for the run.
Applied ==
    {i \in DOMAIN calls : calls[i].op = "applyTransition" /\ outcomes[i].outcome = "ok"}

\* The run changed a status and then failed.
FailedPartWay == pc = "aborted" /\ Applied # {}

\* The calls that would undo a status change: a transition of the issue to
\* the status it had.
Compensating ==
    {i \in DOMAIN calls :
        /\ calls[i].op = "applyTransition"
        /\ TransitionTo[calls[i].id] = tracker0[calls[i].key].status}

Untouched(k) ==
    /\ tracker[k].assignee = tracker0[k].assignee
    /\ tracker[k].resolution = tracker0[k].resolution
    /\ tracker[k].curation_status = tracker0[k].curation_status

\* C18, as claimed: a run that fails after its first status change leaves the
\* issue at In Progress, its fields unchanged, and issues no compensating
\* call.
C18_LeftInProgress ==
    FailedPartWay =>
        /\ Compensating = {}
        /\ tracker[ci.key].status = "In Progress"
        /\ Untouched(ci.key)

\* C18, amended: a run that fails after a status change leaves the issue at
\* the target of the last change applied: In Progress when the failure comes
\* before the second change is applied, the final status (To Do for a
\* submission, Resolved for a withdrawal) when the field update is rejected;
\* its resolution, assignee and curation-status are unchanged, so is every
\* other issue, the failed call is the last call and no call is compensating.
C18_NoRollback ==
    FailedPartWay =>
        LET k == ci.key
            final == IF type = "submission" THEN "To Do" ELSE "Resolved"
            hops == IF type = "withdrawal" /\ tracker0[k].status = "In Progress"
                    THEN 1 ELSE 2
        IN  /\ Compensating = {}
            /\ tracker[k].status =
                  (IF Cardinality(Applied) = hops THEN final ELSE "In Progress")
            /\ Cardinality(Applied) = hops <=> LastCall.op = "updateFields"
            /\ Untouched(k)
            /\ Len(tracker) = Len(tracker0)
            /\ \A j \in DOMAIN tracker : j # k => tracker[j] = tracker0[j]
            /\ \A i \in DOMAIN calls :
                  (outcomes[i].outcome # "ok"
                      \/ (calls[i].op = "getAllowedTransitions" /\ outcomes[i].id = None))
                  <=> i = Len(calls)

C18_Witness ==
    /\ FailedPartWay
    /\ type = "submission"
    /\ LastCall.op = "updateFields"
    /\ tracker[ci.key].status = "To Do"
    /\ tracker0[ci.key].status = "Waiting on Peer Review"

(* ------------------------- one run after another ----------------------- *)

\* The runs of the program, at most, one after another.
MaxRuns == 3

UniqueDois(tr) == \A i, j \in DOMAIN tr : tr[i].doi = tr[j].doi => i = j

\* The program is run on one email after another, each run ending before the
\* next starts; either every call to the tracker succeeds or calls may fail.
InitSequential ==
    /\ tracker \in {t \in Trackers : UniqueDois(t)}
    /\ tracker0 = tracker
    /\ email \in TemplateEmails
    /\ pc = "process_email"
    /\ type = None /\ fields = Absent /\ issues = <<>> /\ start = 0
    /\ ci = Absent /\ cis = Absent /\ calls = <<>> /\ error = None
    /\ outcomes = <<>>
    /\ faulty \in BOOLEAN
    /\ other = Absent
    /\ runs = 1
    /\ first = Absent /\ text = Absent /\ result = Absent

\* What is kept of a run that has ended: its email, how it ended, and the keys
\* of the issues it created (one at most).
EndOfRun ==
    [email |-> email, pc |-> pc, error |-> error,
     created |-> IF calls # <<>> /\ LastCall.op = "createIssue"
                    /\ outcomes[Len(outcomes)].outcome = "ok"
                 THEN {outcomes[Len(outcomes)].key} ELSE {}]

\* The next run starts, on the same email or on another, against the tracker
\* as the run before left it.
next_run ==
    /\ runs < MaxRuns
    /\ Ended
    /\ first' = EndOfRun
    /\ runs' = runs + 1
    /\ tracker0' = tracker
    /\ email' \in TemplateEmails
    /\ pc' = "process_email"
    /\ type' = None /\ fields' = Absent /\ issues' = <<>> /\ start' = 0
    /\ ci' = Absent /\ cis' = Absent /\ calls' = <<>> /\ error' = None
    /\ outcomes' = <<>>
    /\ UNCHANGED <<tracker, faulty, other, text, result>>

SpecSequential == InitSequential /\ [][Next \/ next_run]_vars

\* C19: with runs one after another and every call succeeding, from a tracker
\* with at most one issue per DOI: the tracker always holds at most one issue
\* per DOI, and createIssue is only called for a DOI that the scan just
\* finished, which fetched every issue of the tracker, found on no issue.
C19_OnePerDoi ==
    ~faulty =>
    /\ UniqueDois(tracker)
    /\ pc = "create_curation_issue" =>
          /\ issues = [k \in DOMAIN tracker |-> CurationIssue(tracker, k)]
          /\ FetchedWithDoi = {}
          /\ WithDoi(tracker, fields.doi) = {}
          /\ calls[Len(calls)].op = "searchIssues"
    /\ \A i \in DOMAIN calls :
          calls[i].op = "createIssue" =>
             /\ i = Len(calls)
             /\ WithDoi(tracker0, calls[i].fields.doi) = {}
             /\ WithDoi(tracker, calls[i].fields.doi) = {outcomes[i].key}

C19_Witness ==
    /\ ~faulty
    /\ runs = MaxRuns
    /\ pc = "done"
    /\ Len(tracker) > 1
    /\ first.created # {} /\ type = "submission"
    /\ NoWriteCall
    /\ Cardinality(WithDoi(tracker, fields.doi)) = 1

\* The run before this one ended without error, on the same email, and the
\* issue it created, if it created one, did not start out Waiting on Peer
\* Review.
Reprocessing ==
    /\ first # Absent
    /\ first.pc = "done"
    /\ first.email = email
    /\ \A k \in first.created : tracker0[k].status # "Waiting on Peer Review"

\* C20: a run that follows at once a run on the same email that completed
\* without error issues no write call and leaves the tracker as it found it:
\* it finds the issue Resolved (withdrawal), To Do or as created (submission),
\* provided a created issue did not start out Waiting on Peer Review.
C20_Reprocess ==
    Reprocessing =>
        /\ NoWriteCall
        /\ tracker = tracker0
        /\ pc = "aborted" =>
              /\ error \in {ApiError(o) : o \in ApiOutcomes \ {"ok"}}
              /\ LastCall.op = "searchIssues"
        /\ (pc = "done" /\ type = "withdrawal" /\ ci # Absent) => ci.status = "Resolved"
        /\ (pc = "done" /\ type = "submission") =>
              /\ ci # Absent
              /\ ci.status # "Waiting on Peer Review"
              /\ first.created # {} => ci.key \in first.created

C20_Witness ==
    /\ Reprocessing
    /\ pc = "done"
    /\ type = "submission"
    /\ first.created = {}
    /\ ci # Absent /\ ci.status = "To Do"
    /\ tracker0[ci.key].assignee = None
====
